---- MODULE Spec2Model ----
\* Model of src/fastapi_server.py: the streaming relay chat_stream.stream_response
\* and the message normalizer fine_tune_user_message.
\* Text (Python str) is a sequence of one-character strings.
EXTENDS Integers, Sequences, FiniteSets, TLC

\* ---------------------------------------------------------------------------
\* Characters (str.isupper, str.isalpha, str.isalnum, str.isspace, regex \w, \s)
\* A character is a one-character string; the alphabet is Latin-1 (U+0000 to
\* U+00FF), the characters a string of this module can hold, and the three
\* characters that str.upper and str.lower reach from it, held by name.
\* ---------------------------------------------------------------------------
\* a-z, U+00E0-00F6, U+00F8-00FF and Greek mu: the letters str.upper maps to the
\* letter at the same place of UpperChars
LowerChars == <<"a","b","c","d","e","f","g","h","i","j","k","l","m","n","o","p","q","r","s","t","u","v","w","x","y","z","à","á","â","ã","ä","å","æ","ç","è","é","ê","ë","ì","í","î","ï","ð","ñ","ò","ó","ô","õ","ö","ø","ù","ú","û","ü","ý","þ","ÿ">> \o <<"U+03BC">>

\* A-Z, U+00C0-00D6, U+00D8-00DE, U+0178 and Greek capital mu
UpperChars == <<"A","B","C","D","E","F","G","H","I","J","K","L","M","N","O","P","Q","R","S","T","U","V","W","X","Y","Z","À","Á","Â","Ã","Ä","Å","Æ","Ç","È","É","Ê","Ë","Ì","Í","Î","Ï","Ð","Ñ","Ò","Ó","Ô","Õ","Ö","Ø","Ù","Ú","Û","Ü","Ý","Þ">> \o <<"U+0178", "U+039C">>

\* lower-case letters without an upper-case letter of their own: U+00AA, U+00BA
\* (str.upper leaves them), U+00DF (upper is SS), U+00B5 (upper is U+039C)
UnpairedLower == <<"ª","º","ß","µ">>

DigitChars == <<"0","1","2","3","4","5","6","7","8","9">>

\* U+00B2, U+00B3, U+00B9, U+00BC-00BE: isalnum holds, isalpha does not
NumericChars == <<"²","³","¹","¼","½","¾">>

\* U+0009-000D, U+001C-001F, U+0020, U+0085, U+00A0: the characters of
\* str.isspace, which str.strip, str.split and regex \s use
WhitespaceChars == <<"\t","\n","","\f","\r","","","",""," ",""," ">>

SetOf(s) == {s[i] : i \in 1..Len(s)}

UpperSet == SetOf(UpperChars)

LowerSet == SetOf(LowerChars) \cup SetOf(UnpairedLower)

AlnumSet == UpperSet \cup LowerSet \cup SetOf(DigitChars) \cup SetOf(NumericChars)

WhitespaceSet == SetOf(WhitespaceChars)

IsUpper(c) == c \in UpperSet

IsLowerCh(c) == c \in LowerSet

IsAlpha(c) == IsUpper(c) \/ IsLowerCh(c)

IsAlnum(c) == c \in AlnumSet

IsSpace(c) == c \in WhitespaceSet

\* regex \w
IsWordCh(c) == IsAlnum(c) \/ c = "_"

\* c.lower() for an upper-case letter
LowerOf == [c \in UpperSet |-> LowerChars[CHOOSE i \in 1..Len(UpperChars) : UpperChars[i] = c]]

\* c.upper() for a lower-case letter, a str: U+00DF gives two characters
UpperOf ==
  [c \in LowerSet |->
     CASE c \in SetOf(LowerChars) ->
            <<UpperChars[CHOOSE i \in 1..Len(LowerChars) : LowerChars[i] = c]>>
       [] c = "ß" -> <<"S", "S">>
       [] c = "µ" -> <<"U+039C">>
       [] OTHER -> <<c>>]

\* c.lower()
LowerCh(c) == IF IsUpper(c) THEN LowerOf[c] ELSE c

\* c.upper()
UpperCh(c) == IF IsLowerCh(c) THEN UpperOf[c] ELSE <<c>>

\* ---------------------------------------------------------------------------
\* str methods
\* ---------------------------------------------------------------------------
\* s.lower()
Lower(s) == [i \in 1..Len(s) |-> LowerCh(s[i])]

\* s[a:b] with 1-based inclusive bounds
Slice(s, a, b) == IF a > b THEN <<>> ELSE SubSeq(s, a, b)

\* s.startswith(p)
StartsWith(s, p) == Len(p) <= Len(s) /\ Slice(s, 1, Len(p)) = p

\* s.endswith(p)
EndsWith(s, p) == Len(p) <= Len(s) /\ Slice(s, Len(s) - Len(p) + 1, Len(s)) = p

\* sub in s
Contains(s, sub) == \E i \in 0..(Len(s) - Len(sub)) : Slice(s, i + 1, i + Len(sub)) = sub

RECURSIVE LStrip(_)
LStrip(s) == IF s # <<>> /\ IsSpace(s[1]) THEN LStrip(Tail(s)) ELSE s

RECURSIVE RStripSet(_, _)
\* s.rstrip(chars)
RStripSet(s, cs) ==
  IF s # <<>> /\ s[Len(s)] \in cs THEN RStripSet(Slice(s, 1, Len(s) - 1), cs) ELSE s

\* s.strip()
Strip(s) == RStripSet(LStrip(s), WhitespaceSet)

\* len(s.split()): number of maximal runs of non-whitespace
SplitCount(s) ==
  Cardinality({i \in 1..Len(s) : ~IsSpace(s[i]) /\ (i = 1 \/ IsSpace(s[i - 1]))})

\* bool(s) for a str
Truthy(s) == s # <<>>

\* ---------------------------------------------------------------------------
\* Regular-expression substitutions used by fine_tune_user_message
\* ---------------------------------------------------------------------------
\* the literal w (lower case) matches s at position i, ignoring case
LitAt(s, i, w) == i + Len(w) - 1 <= Len(s) /\ Lower(Slice(s, i, i + Len(w) - 1)) = w

\* regex \bw\b with re.IGNORECASE matches s at position i
WordAt(s, i, w) ==
  /\ LitAt(s, i, w)
  /\ (i = 1 \/ ~IsWordCh(s[i - 1]))
  /\ (i + Len(w) - 1 = Len(s) \/ ~IsWordCh(s[i + Len(w)]))

contractions == {<<"c","a","n","t">>, <<"w","o","n","t">>, <<"d","o","n","t">>, <<"i","s","n","t">>, <<"a","r","e","n","t">>, <<"w","a","s","n","t">>, <<"w","e","r","e","n","t">>}

RECURSIVE ContractionScan(_, _)
ContractionScan(s, i) ==
  IF i > Len(s) THEN <<>>
  ELSE IF \E w \in contractions : WordAt(s, i, w)
       THEN LET w == CHOOSE x \in contractions : WordAt(s, i, x)
                m == Slice(s, i, i + Len(w) - 1)
            IN  <<m[1], "'">> \o Tail(m) \o ContractionScan(s, i + Len(w))
       ELSE <<s[i]>> \o ContractionScan(s, i + 1)

\* re.sub(r'\b(cant|wont|dont|isnt|arent|wasnt|werent)\b', m[0] + "'" + m[1:], s, IGNORECASE)
FixContractions(s) == ContractionScan(s, 1)

RECURSIVE WordScan(_, _, _, _)
WordScan(s, i, w, repl) ==
  IF i > Len(s) THEN <<>>
  ELSE IF WordAt(s, i, w) THEN repl \o WordScan(s, i + Len(w), w, repl)
       ELSE <<s[i]>> \o WordScan(s, i + 1, w, repl)

\* re.sub(r'\bw\b', repl, s, IGNORECASE)
SubWord(s, w, repl) == WordScan(s, 1, w, repl)

RECURSIVE SpaceRun(_, _)
\* length of the run of whitespace of s that starts at position i
SpaceRun(s, i) == IF i <= Len(s) /\ IsSpace(s[i]) THEN 1 + SpaceRun(s, i + 1) ELSE 0

\* last position of a match of \byou\s+are\s+right\b starting at i, 0 when none
PhraseEnd(s, i) ==
  LET a  == i + 3
      n1 == SpaceRun(s, a)
      b  == a + n1
      c  == b + 3
      n2 == SpaceRun(s, c)
      d  == c + n2
      e  == d + 4
  IN  IF /\ (i = 1 \/ ~IsWordCh(s[i - 1]))
         /\ LitAt(s, i, <<"y","o","u">>)
         /\ n1 >= 1
         /\ LitAt(s, b, <<"a","r","e">>)
         /\ n2 >= 1
         /\ LitAt(s, d, <<"r","i","g","h","t">>)
         /\ (e = Len(s) \/ ~IsWordCh(s[e + 1]))
      THEN e ELSE 0

RECURSIVE PhraseScan(_, _)
PhraseScan(s, i) ==
  IF i > Len(s) THEN <<>>
  ELSE IF PhraseEnd(s, i) > 0 THEN <<"y","o","u"," ","a","r","e"," ","c","o","r","r","e","c","t">> \o PhraseScan(s, PhraseEnd(s, i) + 1)
       ELSE <<s[i]>> \o PhraseScan(s, i + 1)

\* F(x), with x evaluated once before F is applied
Apply(F(_), x) == CHOOSE r \in {F(v) : v \in {x}} : TRUE

FixTeh(s) == SubWord(s, <<"t","e","h">>, <<"t","h","e">>)

FixAdn(s) == SubWord(s, <<"a","d","n">>, <<"a","n","d">>)

FixYoru(s) == SubWord(s, <<"y","o","r","u">>, <<"y","o","u","r">>)

FixYouAreRight(s) == PhraseScan(s, 1)

\* the four substitutions of common_fixes, in dict order
common_fixes(s) == Apply(FixYouAreRight, Apply(FixYoru, Apply(FixAdn, Apply(FixTeh, s))))

RECURSIVE CollapseScan(_, _)
CollapseScan(s, i) ==
  IF i > Len(s) THEN <<>>
  ELSE IF IsSpace(s[i]) THEN <<" ">> \o CollapseScan(s, i + SpaceRun(s, i))
       ELSE <<s[i]>> \o CollapseScan(s, i + 1)

\* re.sub(r'\s+', ' ', s)
CollapseSpaces(s) == CollapseScan(s, 1)

\* ---------------------------------------------------------------------------
\* fine_tune_user_message
\* ---------------------------------------------------------------------------
greeting_words == {<<"h","i">>, <<"h","e","l","l","o">>, <<"h","e","l","p">>, <<"t","h","a","n","k","s">>, <<"t","h","a","n","k">>}

question_words ==
  {<<"w","h","a","t">>, <<"h","o","w">>, <<"w","h","y">>, <<"w","h","e","n">>, <<"w","h","e","r","e">>, <<"w","h","o">>, <<"w","h","i","c","h">>, <<"c","a","n">>,
   <<"c","o","u","l","d">>, <<"s","h","o","u","l","d">>, <<"w","o","u","l","d">>, <<"i","s">>, <<"a","r","e">>, <<"d","o">>, <<"d","o","e","s">>, <<"d","i","d">>}

context_keywords ==
  {<<"i","t">>, <<"t","h","i","s">>, <<"t","h","a","t">>, <<"a","b","o","v","e">>, <<"p","r","e","v","i","o","u","s">>, <<"e","a","r","l","i","e","r">>, <<"b","e","f","o","r","e">>}

\* conversation_context: None, or the list of the messages before this one
None == [present |-> FALSE, msgs |-> <<>>]

Some(ms) == [present |-> TRUE, msgs |-> ms]

\* AddClarity with the word limit off by one
AddClarity_TwoWords(t) ==
  IF /\ SplitCount(t) < 2
     /\ ~EndsWith(t, <<"?">>)
     /\ ~\E w \in greeting_words : Contains(Lower(t), w)
     /\ ~Contains(t, <<"?">>)
  THEN <<"P","l","e","a","s","e"," ","e","x","p","l","a","i","n",":"," ">> \o t
  ELSE t

\* step 2: short or vague messages get a clarifying prefix
AddClarity(t) ==
  IF /\ SplitCount(t) < 3
     /\ ~EndsWith(t, <<"?">>)
     /\ ~\E w \in greeting_words : Contains(Lower(t), w)
     /\ ~Contains(t, <<"?">>)
  THEN <<"P","l","e","a","s","e"," ","e","x","p","l","a","i","n",":"," ">> \o t
  ELSE t

\* FormatQuestion that leaves a question ending in an exclamation mark alone
FormatQuestion_KeepBang(t) ==
  IF /\ \E w \in question_words : StartsWith(Lower(t), w)
     /\ ~EndsWith(t, <<"?">>)
     /\ ~EndsWith(t, <<".">>)
     /\ ~EndsWith(t, <<"!">>)
  THEN RStripSet(t, {".", "!"}) \o <<"?">>
  ELSE t

\* FormatQuestion without the test for a question mark that is already there
FormatQuestion_AlwaysAppend(t) ==
  IF /\ \E w \in question_words : StartsWith(Lower(t), w)
     /\ ~EndsWith(t, <<".">>)
  THEN RStripSet(t, {".", "!"}) \o <<"?">>
  ELSE t

\* step 3: questions end with a question mark
FormatQuestion(t) ==
  IF /\ \E w \in question_words : StartsWith(Lower(t), w)
     /\ ~EndsWith(t, <<"?">>)
     /\ ~EndsWith(t, <<".">>)
  THEN RStripSet(t, {".", "!"}) \o <<"?">>
  ELSE t

\* UseContext that marks a message that refers to the conversation
UseContext_Rewrite(t, conversation_context) ==
  IF /\ conversation_context.present
     /\ Len(conversation_context.msgs) > 1
     /\ \E k \in context_keywords : Contains(Lower(t), k)
  THEN t \o <<" ","(","s","e","e"," ","a","b","o","v","e",")">>
  ELSE t

\* step 4: the context check, whose body is `pass`
UseContext(t, conversation_context) ==
  IF /\ conversation_context.present
     /\ Len(conversation_context.msgs) > 1
     /\ \E k \in context_keywords : Contains(Lower(t), k)
  THEN t
  ELSE t

\* step 6: capitalize the first letter
Capitalize(t) ==
  IF t # <<>> /\ ~IsUpper(t[1]) /\ IsAlpha(t[1]) THEN UpperCh(t[1]) \o Tail(t) ELSE t

\* step 7: statements end with a period
EnsureEnding(t) ==
  IF /\ t # <<>>
     /\ IsAlnum(t[Len(t)])
     /\ ~\E w \in question_words : Contains(Lower(t), w)
  THEN t \o <<".">>
  ELSE t

\* step 5: normalize whitespace
NormalizeWhitespace(t) == Apply(Strip, Apply(CollapseSpaces, t))

\* steps 1-6 on a message that is not blank: tuned_message before step 7
TunedBeforeEnding(message_content, conversation_context) ==
  LET t0 == Apply(Strip, message_content)
      t1 == Apply(common_fixes, Apply(FixContractions, t0))
      t2 == Apply(AddClarity, t1)
      t3 == Apply(FormatQuestion, t2)
      t4 == Apply(LAMBDA t : UseContext(t, conversation_context), t3)
      t5 == Apply(NormalizeWhitespace, t4)
  IN  Apply(Capitalize, t5)

fine_tune_user_message(message_content, conversation_context) ==
  IF ~Truthy(message_content) \/ ~Truthy(Strip(message_content))
  THEN message_content
  ELSE Apply(EnsureEnding, TunedBeforeEnding(message_content, conversation_context))

\* ---------------------------------------------------------------------------
\* chat_stream.stream_response: model resolution and message preparation
\* ---------------------------------------------------------------------------
\* os.environ of the server process: each variable is unset or set to a text.
\* Nothing in the program writes it.
VARIABLE environ

Unset == [set |-> FALSE, val |-> <<>>]

SetTo(text) == [set |-> TRUE, val |-> text]

\* os.getenv(name, default)
Getenv(name, default) == IF environ[name].set THEN environ[name].val ELSE default

\* os.getenv("DEFAULT_MODEL", "phi3:mini-128k") (line 135)
DEFAULT_MODEL == Getenv("DEFAULT_MODEL", <<"p","h","i","3",":","m","i","n","i","-","1","2","8","k">>)

\* os.getenv("OLLAMA_BASE_URL", "http://localhost:11434") (line 23)
OLLAMA_BASE_URL == Getenv("OLLAMA_BASE_URL", <<"h","t","t","p",":","/","/","l","o","c","a","l","h","o","s","t",":","1","1","4","3","4">>)

\* lines 132-139
ResolveModel(model) ==
  IF ~Truthy(model) \/ Strip(model) = <<>> \/ Lower(model) = <<"s","t","r","i","n","g">>
  THEN DEFAULT_MODEL
  ELSE Strip(model)

\* PrepareMessages that normalizes every message, whatever its role
PrepareMessages_AllRoles(messages) ==
  [i \in 1..Len(messages) |->
     [role    |-> messages[i].role,
      content |-> fine_tune_user_message(
                    messages[i].content,
                    IF i > 1 THEN Some(SubSeq(messages, 1, i - 1)) ELSE None)]]

\* lines 142-160
PrepareMessages(messages) ==
  [i \in 1..Len(messages) |->
     IF messages[i].role = "user"
     THEN [role    |-> messages[i].role,
           content |-> fine_tune_user_message(
                         messages[i].content,
                         IF i > 1 THEN Some(SubSeq(messages, 1, i - 1)) ELSE None)]
     ELSE [role |-> messages[i].role, content |-> messages[i].content]]

\* lines 168-172
OllamaRequest(model_name, fine_tuned_messages, stream) ==
  [sent |-> TRUE, model |-> model_name, messages |-> fine_tuned_messages, stream |-> stream]

NoPayload == [sent |-> FALSE, model |-> <<>>, messages |-> <<>>, stream |-> FALSE]

\* ---------------------------------------------------------------------------
\* Backend lines, error values and the events of the output stream
\* ---------------------------------------------------------------------------
\* The value of an `error` field after json.loads: t is "str" (s is the string),
\* "coll" (a dict or list; members are its keys or elements, s is its str()),
\* "scalar" (None, a number or a boolean; s is its str()) or "none" (no field).
NoErr == [t |-> "none", s |-> <<>>, members |-> {}]

ErrStr(s) == [t |-> "str", s |-> s, members |-> {}]

ErrNull == [t |-> "scalar", s |-> <<"N","o","n","e">>, members |-> {}]

ErrColl(members, repr) == [t |-> "coll", s |-> repr, members |-> members]

\* A line of the backend stream or an error body, as json.loads sees it:
\* kind is "empty", "text" (json.loads raises JSONDecodeError), "raises"
\* (json.loads raises another exception: ValueError for an integer of too many
\* digits, RecursionError for deep nesting), "obj", "arr", "str", "num", "bool"
\* or "null"; has is the value of `"error" in line_data` where that is defined.
Line(kind, has, err) == [kind |-> kind, has |-> has, err |-> err]

NoLine == [id |-> 0, kind |-> "empty", has |-> FALSE, err |-> NoErr]

\* yield f"{line}\n"
Forwarded(line) == [src |-> "backend", tmpl |-> "", arg |-> <<>>, line |-> line]

\* yield f'{{"error": "..."}}\n' with the message template tmpl filled with arg
ErrorEvent(tmpl, arg) == [src |-> "relay", tmpl |-> tmpl, arg |-> arg, line |-> NoLine]

\* str(response.status_code)
RECURSIVE StrInt(_)
StrInt(n) == IF n < 10 THEN <<DigitChars[n + 1]>> ELSE StrInt(n \div 10) \o <<DigitChars[(n % 10) + 1]>>

\* ErrorDetail that ignores the body
ErrorDetail_Generic(status_code, body) == ErrorEvent("status", StrInt(status_code))

\* lines 183-189
ErrorDetail(status_code, body) ==
  IF body.kind = "obj" /\ body.has
  THEN ErrorEvent("raw", body.err.s)
  ELSE ErrorEvent("status", StrInt(status_code))

runner_text == <<"t","i","m","e","d"," ","o","u","t"," ","w","a","i","t","i","n","g"," ","f","o","r"," ","l","l","a","m","a"," ","r","u","n","n","e","r">>

\* lines 201-206
ClassifyError(error_msg, model_name) ==
  IF Contains(error_msg, runner_text) \/ Contains(Lower(error_msg), <<"t","i","m","e","o","u","t">>)
  THEN ErrorEvent("model_loading_timeout", model_name)
  ELSE IF /\ Contains(Lower(error_msg), <<"m","o","d","e","l">>)
          /\ (Contains(Lower(error_msg), <<"n","o","t"," ","f","o","u","n","d">>) \/ Contains(Lower(error_msg), <<"d","o","e","s"," ","n","o","t"," ","e","x","i","s","t">>))
       THEN ErrorEvent("model_not_found", model_name)
       ELSE ErrorEvent("raw", error_msg)

\* lines 193-214: what the loop body does with one line.
\* act is "skip" (empty line), "forward" (line 211), "error" (lines 202-207) or
\* "swallow" (an exception reaches `except Exception` at 212 and the loop continues).
ProcessLine(line, model_name) ==
  IF line.kind = "empty" THEN [act |-> "skip", ev |-> Forwarded(line)]
  ELSE IF line.kind = "text" THEN [act |-> "forward", ev |-> Forwarded(line)]
  ELSE IF line.kind = "raises" THEN [act |-> "swallow", ev |-> Forwarded(line)]
  ELSE IF line.kind \in {"num", "bool", "null"} THEN [act |-> "swallow", ev |-> Forwarded(line)]
  ELSE IF ~line.has THEN [act |-> "forward", ev |-> Forwarded(line)]
  ELSE IF line.kind \in {"arr", "str"} THEN [act |-> "swallow", ev |-> Forwarded(line)]
  ELSE IF line.err.t = "str" THEN [act |-> "error", ev |-> ClassifyError(line.err.s, model_name)]
  ELSE IF line.err.t = "coll" /\ runner_text \in line.err.members
       THEN [act |-> "error", ev |-> ErrorEvent("model_loading_timeout", model_name)]
  ELSE [act |-> "swallow", ev |-> Forwarded(line)]

\* AfterLine without the `return` of line 207: the error line is forwarded too
AfterLine_NoReturn(line, model_name) ==
  LET r == ProcessLine(line, model_name)
  IN  CASE r.act = "forward" -> [emit |-> <<r.ev>>, pc |-> "YieldedLine"]
        [] r.act = "error"   -> [emit |-> <<r.ev, Forwarded(line)>>, pc |-> "YieldedLine"]
        [] OTHER             -> [emit |-> <<>>, pc |-> "Streaming"]

\* AfterLine that posts the request again after an in-stream error
AfterLine_Retry(line, model_name) ==
  LET r == ProcessLine(line, model_name)
  IN  CASE r.act = "forward" -> [emit |-> <<r.ev>>, pc |-> "YieldedLine"]
        [] r.act = "error"   -> [emit |-> <<>>, pc |-> "Normalizing"]
        [] OTHER             -> [emit |-> <<>>, pc |-> "Streaming"]

\* lines 192-214: events yielded for one line and where the generator is next
AfterLine(line, model_name) ==
  LET r == ProcessLine(line, model_name)
  IN  CASE r.act = "forward" -> [emit |-> <<r.ev>>, pc |-> "YieldedLine"]
        [] r.act = "error"   -> [emit |-> <<r.ev>>, pc |-> "YieldedError"]
        [] OTHER             -> [emit |-> <<>>, pc |-> "Streaming"]

\* ExceptionEvent with one handler for every transport error
ExceptionEvent_OneHandler(kind) ==
  CASE kind \in {"timeout", "connect"} -> ErrorEvent("request_timeout", <<>>)
    [] OTHER                            -> ErrorEvent("internal", <<"e","x","c","e","p","t","i","o","n">>)

\* lines 215-222: the handler that catches an exception of the given kind:
\* "timeout" (httpx.TimeoutException), "connect" (httpx.ConnectError), "other"
ExceptionEvent(kind) ==
  CASE kind = "timeout" -> ErrorEvent("request_timeout", <<>>)
    [] kind = "connect" -> ErrorEvent("cannot_connect", OLLAMA_BASE_URL)
    [] OTHER            -> ErrorEvent("internal", <<"e","x","c","e","p","t","i","o","n">>)

\* the handlers at 215 and 218 run inside `async with ... as client` (line 164),
\* the handler at 221 outside it
ClientOpenInHandler(kind) == kind \in {"timeout", "connect"}

\* Release with explicit close() calls that a cancellation skips
Release_NoCancel(cause) ==
  IF cause = "cancel" THEN [client |-> TRUE, resp |-> TRUE] ELSE [client |-> FALSE, resp |-> FALSE]

\* `async with` at lines 164 and 175: what is still open once the generator has
\* left both blocks by return, by the end of the stream or by cancellation
Release(cause) == [client |-> FALSE, resp |-> FALSE]

\* PcAfterClose of a loop that does not leave at the end of the stream
PcAfterClose_Loop == "Streaming"

\* end of `async for` (line 192) when the backend closes the stream
PcAfterClose == "Done"

\* ---------------------------------------------------------------------------
\* Inputs
\* ---------------------------------------------------------------------------
\* longest backend stream the model follows
MaxLines == 3

Msg(role, content) == [role |-> role, content |-> content]

ChatRequest(model, messages, stream) == [model |-> model, messages |-> messages, stream |-> stream]

Requests ==
  { ChatRequest(<<>>, <<>>, TRUE),
    ChatRequest(<<" ","\n">>, <<Msg("user", <<"f","i","x"," ","b","u","g","\n">>)>>, TRUE),
    ChatRequest(<<"s","t","r","i","n","g">>, <<Msg("user", <<"f","i","x"," ","b","u","g">>)>>, FALSE),
    ChatRequest(<<"S","T","R","I","N","G">>,
                <<Msg("system", <<"f","i","x"," ","b","u","g">>), Msg("user", <<"t","e","h"," ","c","a","t","\n","s","a","t">>),
                  Msg("assistant", <<"w","h","a","t"," ","i","s"," ","t","h","i","s">>), Msg("user", <<"w","h","a","t"," ","i","s"," ","t","h","a","t">>)>>, TRUE),
    ChatRequest(<<" ","s","t","r","i","n","g"," ">>, <<Msg("user", <<"f","i","x"," ","b","u","g">>)>>, TRUE),
    ChatRequest(<<"l","l","a","m","a","3">>,
                <<Msg("assistant", <<" ","h","i"," ","t","h","e","r","e"," ">>), Msg("user", <<" "," ">>),
                  Msg("User", <<"c","a","n","t"," ","s","t","o","p">>)>>, TRUE),
    ChatRequest(<<" ","l","l","a","m","a","3","\n">>, <<Msg("user", <<"c","a","n","t"," ","s","t","o","p">>)>>, TRUE) }

\* environments of the server process
Environments ==
  { [DEFAULT_MODEL |-> Unset, OLLAMA_BASE_URL |-> Unset],
    [DEFAULT_MODEL |-> SetTo(<<"l","l","a","m","a","3">>), OLLAMA_BASE_URL |-> SetTo(<<"h","t","t","p",":","/","/","g","p","u",":","1","1","4","3","4">>)],
    [DEFAULT_MODEL |-> SetTo(<<>>), OLLAMA_BASE_URL |-> Unset] }

\* shapes of the lines a backend can send
Lines ==
  { Line("empty", FALSE, NoErr),
    Line("text", FALSE, NoErr),
    Line("raises", FALSE, NoErr),
    Line("obj", FALSE, NoErr),
    Line("obj", TRUE, ErrStr(<<"b","o","o","m">>)),
    Line("obj", TRUE, ErrStr(<<"m","o","d","e","l"," ","x","y","z"," ","n","o","t"," ","f","o","u","n","d">>)),
    Line("obj", TRUE, ErrStr(<<"T","i","m","e","d"," ","O","u","t"," ","W","a","i","t","i","n","g"," ","F","o","r"," ","L","l","a","m","a"," ","R","u","n","n","e","r">>)),
    Line("obj", TRUE, ErrStr(<<"m","o","d","e","l"," ","d","o","e","s"," ","n","o","t"," ","e","x","i","s","t",":"," ","T","I","M","E","O","U","T">>)),
    Line("obj", TRUE, ErrNull),
    Line("obj", TRUE, ErrColl({runner_text}, <<"{","}">>)),
    Line("arr", FALSE, NoErr),
    Line("str", TRUE, NoErr),
    Line("num", FALSE, NoErr) }

\* the n-th line of the backend stream
WithId(line, n) == [id |-> n, kind |-> line.kind, has |-> line.has, err |-> line.err]

\* bodies of a non-success response
Bodies ==
  { Line("text", FALSE, NoErr),
    Line("obj", FALSE, NoErr),
    Line("obj", TRUE, ErrStr(<<"b","o","o","m">>)),
    Line("obj", TRUE, ErrNull),
    Line("arr", TRUE, NoErr) }

StatusOK == 200

Statuses == {StatusOK, 404, 500}

FaultKinds == {"timeout", "connect", "other"}

NoFault == [at |-> "none", kind |-> "none"]

\* ---------------------------------------------------------------------------
\* State
\* ---------------------------------------------------------------------------
VARIABLES
  request,              \* the ChatRequest
  pc,                   \* position of the generator stream_response
  model_name,           \* line 132
  fine_tuned_messages,  \* line 142
  payload,              \* ollama_request as POSTed (line 168)
  posts,                \* number of POSTs issued to the backend
  clientOpen,           \* inside `async with httpx.AsyncClient` (line 164)
  respOpen,             \* inside `async with client.stream` (line 175), response open
  status_code,          \* response.status_code, 0 before the response
  body,                 \* <<error body>> once response.aread() returned (line 182)
  read,                 \* lines delivered by response.aiter_lines() so far
  out,                  \* events yielded to the caller so far
  fault,                \* the exception raised in the generator, if any
  call,                 \* a call of validate_input or fine_tune_user_message on its own
  reqs                  \* the requests in flight when several are handled concurrently

vars == <<environ, request, pc, model_name, fine_tuned_messages, payload, posts, clientOpen,
          respOpen, status_code, body, read, out, fault, call, reqs>>

reqVars == <<environ, request, model_name, fine_tuned_messages, payload, posts, call, reqs>>

relayVars == <<environ, request, pc, model_name, fine_tuned_messages, payload, posts, clientOpen,
               respOpen, status_code, body, read, out, fault>>

NoCall == [fn |-> "none"]

\* the generator object of one request, not yet started
RelayInit ==
  /\ pc = "Idle"
  /\ model_name = <<>>
  /\ fine_tuned_messages = <<>>
  /\ payload = NoPayload
  /\ posts = 0
  /\ clientOpen = FALSE
  /\ respOpen = FALSE
  /\ status_code = 0
  /\ body = <<>>
  /\ read = <<>>
  /\ out = <<>>
  /\ fault = NoFault

Init ==
  /\ environ \in Environments
  /\ request \in Requests
  /\ RelayInit
  /\ call = NoCall
  /\ reqs = <<>>

\* the generator is started by the first iteration of StreamingResponse (line 130)
Begin ==
  /\ pc = "Idle"
  /\ pc' = "Validating"
  /\ UNCHANGED <<reqVars, clientOpen, respOpen, status_code, body, read, out, fault>>

\* lines 131-139
Validate ==
  /\ pc = "Validating"
  /\ model_name' = ResolveModel(request.model)
  /\ pc' = "Normalizing"
  /\ UNCHANGED <<environ, request, fine_tuned_messages, payload, posts, clientOpen,
                 respOpen, status_code, body, read, out, fault, call, reqs>>

\* lines 141-180: prepare the messages, open the client, issue the streaming POST
Normalize ==
  /\ pc = "Normalizing"
  /\ LET prepared == PrepareMessages(request.messages)
     IN  /\ fine_tuned_messages' = prepared
         /\ payload' = OllamaRequest(model_name, prepared, request.stream)
  /\ posts' = posts + 1
  /\ clientOpen' = TRUE
  /\ pc' = "AwaitingBackendHeaders"
  /\ UNCHANGED <<environ, request, model_name, respOpen, status_code, body, read, out,
                 fault, call, reqs>>

\* an exception before the POST reaches `except Exception` (line 221): raised
\* in lines 133-139, after model_name = request.model (line 132), or in lines
\* 163-164, after the messages are prepared (lines 142-160)
InternalFailure ==
  /\ pc \in {"Validating", "Normalizing"}
  /\ IF pc = "Validating"
     THEN model_name' = request.model /\ UNCHANGED fine_tuned_messages
     ELSE fine_tuned_messages' = PrepareMessages(request.messages) /\ UNCHANGED model_name
  /\ fault' = [at |-> "prepare", kind |-> "other"]
  /\ out' = Append(out, ExceptionEvent("other"))
  /\ pc' = "YieldedError"
  /\ UNCHANGED <<environ, request, payload, posts, call, reqs, clientOpen, respOpen,
                 status_code, body, read>>

\* line 175: the response headers arrive
BackendRespond ==
  /\ pc = "AwaitingBackendHeaders"
  /\ \E st \in Statuses :
       /\ status_code' = st
       /\ pc' = IF st # StatusOK THEN "ReadingErrorBody" ELSE "Streaming"
  /\ respOpen' = TRUE
  /\ UNCHANGED <<reqVars, clientOpen, body, read, out, fault>>

\* line 175 raises: lines 215-222
OpenFail ==
  /\ pc = "AwaitingBackendHeaders"
  /\ \E k \in FaultKinds :
       /\ fault' = [at |-> "open", kind |-> k]
       /\ out' = Append(out, ExceptionEvent(k))
       /\ clientOpen' = ClientOpenInHandler(k)
  /\ respOpen' = FALSE
  /\ pc' = "YieldedError"
  /\ UNCHANGED <<reqVars, status_code, body, read>>

\* lines 182-189: the error body is read and the ErrorEvent yielded
ReadBody ==
  /\ pc = "ReadingErrorBody"
  /\ \E b \in Bodies :
       /\ body' = <<b>>
       /\ out' = Append(out, ErrorDetail(status_code, b))
  /\ pc' = "YieldedError"
  /\ UNCHANGED <<reqVars, clientOpen, respOpen, status_code, read, fault>>

\* line 182 raises (a read never raises httpx.ConnectError)
ReadBodyFail ==
  /\ pc = "ReadingErrorBody"
  /\ \E k \in FaultKinds \ {"connect"} :
       /\ fault' = [at |-> "body", kind |-> k]
       /\ out' = Append(out, ExceptionEvent(k))
       /\ clientOpen' = ClientOpenInHandler(k)
  /\ respOpen' = FALSE
  /\ pc' = "YieldedError"
  /\ UNCHANGED <<reqVars, status_code, body, read>>

\* lines 192-214: the backend delivers a line and the loop body runs on it (for
\* a line that ProcessLine swallows, the print of line 213 succeeds)
ReadLine ==
  /\ pc = "Streaming"
  /\ respOpen
  /\ Len(read) < MaxLines
  /\ \E l \in Lines :
       LET line == WithId(l, Len(read) + 1)
           r    == AfterLine(line, model_name)
       IN  /\ read' = Append(read, line)
           /\ out' = out \o r.emit
           /\ pc' = r.pc
  /\ UNCHANGED <<reqVars, clientOpen, respOpen, status_code, body, fault>>

\* lines 212-213 and 221-222: the loop body raises on the line (ProcessLine
\* swallows it) and the print of the handler at 213 raises too: the exception
\* leaves the loop and both `async with` blocks and reaches `except Exception`
PrintFail ==
  /\ pc = "Streaming"
  /\ respOpen
  /\ Len(read) < MaxLines
  /\ \E l \in Lines :
       LET line == WithId(l, Len(read) + 1)
       IN  /\ ProcessLine(line, model_name).act = "swallow"
           /\ read' = Append(read, line)
  /\ fault' = [at |-> "print", kind |-> "other"]
  /\ out' = Append(out, ExceptionEvent("other"))
  /\ clientOpen' = ClientOpenInHandler("other")
  /\ respOpen' = FALSE
  /\ pc' = "YieldedError"
  /\ UNCHANGED <<reqVars, status_code, body>>

\* the caller asks for the next event after a forwarded line: back to line 192
ResumeLine ==
  /\ pc = "YieldedLine"
  /\ pc' = "Streaming"
  /\ UNCHANGED <<reqVars, clientOpen, respOpen, status_code, body, read, out, fault>>

\* line 192 raises while waiting for a line
ReadFail ==
  /\ pc = "Streaming"
  /\ respOpen
  /\ \E k \in FaultKinds \ {"connect"} :
       /\ fault' = [at |-> "line", kind |-> k]
       /\ out' = Append(out, ExceptionEvent(k))
       /\ clientOpen' = ClientOpenInHandler(k)
  /\ respOpen' = FALSE
  /\ pc' = "YieldedError"
  /\ UNCHANGED <<reqVars, status_code, body, read>>

\* the backend closes the stream: the loop at 192 ends and both blocks are left
BackendClose ==
  /\ pc = "Streaming"
  /\ respOpen
  /\ clientOpen' = Release("end").client
  /\ respOpen' = Release("end").resp
  /\ pc' = PcAfterClose
  /\ UNCHANGED <<reqVars, status_code, body, read, out, fault>>

\* the caller asks for the next event after an ErrorEvent: `return` (lines 190,
\* 207, 217, 220) or the end of the generator (line 222)
ResumeError ==
  /\ pc = "YieldedError"
  /\ clientOpen' = Release("return").client
  /\ respOpen' = Release("return").resp
  /\ pc' = "Errored"
  /\ UNCHANGED <<reqVars, status_code, body, read, out, fault>>

SuspensionPoints ==
  {"AwaitingBackendHeaders", "ReadingErrorBody", "Streaming", "YieldedLine", "YieldedError"}

\* the client disconnects: CancelledError or GeneratorExit is raised at the
\* suspension point; neither is an Exception, so no handler of the generator runs
Cancel ==
  /\ pc \in SuspensionPoints
  /\ clientOpen' = Release("cancel").client
  /\ respOpen' = Release("cancel").resp
  /\ pc' = "Cancelled"
  /\ UNCHANGED <<reqVars, status_code, body, read, out, fault>>

Next ==
  \/ Begin
  \/ Validate
  \/ Normalize
  \/ InternalFailure
  \/ BackendRespond
  \/ OpenFail
  \/ ReadBody
  \/ ReadBodyFail
  \/ ReadLine
  \/ PrintFail
  \/ ResumeLine
  \/ ReadFail
  \/ BackendClose
  \/ ResumeError
  \/ Cancel

Spec == Init /\ [][Next]_vars

\* The caller keeps iterating the generator and the backend eventually sends a
\* line, closes the stream or fails; a client disconnect is never forced.
Fairness ==
  /\ WF_vars(Begin)
  /\ WF_vars(Validate)
  /\ WF_vars(Normalize)
  /\ WF_vars(BackendRespond \/ OpenFail)
  /\ WF_vars(ReadBody \/ ReadBodyFail)
  /\ WF_vars(ReadLine \/ ReadFail \/ BackendClose)
  /\ WF_vars(ResumeLine)
  /\ WF_vars(ResumeError)

FairSpec == Spec /\ Fairness

TypeOK ==
  /\ pc \in {"Idle", "Validating", "Normalizing", "AwaitingBackendHeaders",
             "ReadingErrorBody", "Streaming", "YieldedLine", "YieldedError",
             "Done", "Errored", "Cancelled"}
  /\ posts \in 0..1
  /\ Len(read) <= MaxLines
  /\ Len(body) <= 1

\* ---------------------------------------------------------------------------
\* validate_input (POST /api/input/validate)
\* ---------------------------------------------------------------------------
\* Optional[int]
IntNone == [present |-> FALSE, val |-> 0]

IntSome(n) == [present |-> TRUE, val |-> n]

\* InputValidationRequest.max_length default (line 38) and the fallback of line 250
DefaultMaxLength == 10000

InputValidationRequest(message, max_length) == [message |-> message, max_length |-> max_length]

\* str(n) for an int
PyStrInt(n) == IF n < 0 THEN <<"-">> \o StrInt(0 - n) ELSE StrInt(n)

\* validation_request.max_length or 10000 (line 250)
MaxLengthOrDefault(max_length) ==
  IF ~max_length.present \/ max_length.val = 0 THEN DefaultMaxLength ELSE max_length.val

\* lines 249-269
validate_input(validation_request) ==
  LET message    == validation_request.message
      max_length == MaxLengthOrDefault(validation_request.max_length)
  IN  IF ~Truthy(message) \/ ~Truthy(Strip(message))
      THEN [valid |-> FALSE, error |-> <<"I","n","p","u","t"," ","c","a","n","n","o","t"," ","b","e"," ","e","m","p","t","y">>]
      ELSE IF Len(message) > max_length
           THEN [valid          |-> FALSE,
                 error          |-> <<"I","n","p","u","t"," ","e","x","c","e","e","d","s"," ","m","a","x","i","m","u","m"," ","l","e","n","g","t","h"," ","o","f"," ">> \o PyStrInt(max_length)
                                      \o <<" ","c","h","a","r","a","c","t","e","r","s">>,
                 current_length |-> Len(message),
                 max_length     |-> max_length]
           ELSE [valid |-> TRUE, message_length |-> Len(message)]

\* longest message of the enumerated validation requests (besides the one of
\* DefaultMaxLength + 1 characters)
MaxMsgLen == 5

Repeat(c, n) == [i \in 1..n |-> c]

ValidationMessages ==
  {Repeat("a", n) : n \in 0..MaxMsgLen}
    \cup {<<" ">>, <<" ","\t">>, <<"\n">>, <<"\r","\n","\f">>, <<" ">>, <<" ","a"," ">>, <<"a","\n">>,
          Repeat("a", DefaultMaxLength + 1)}

ValidationMaxLengths ==
  {IntNone, IntSome(DefaultMaxLength)} \cup {IntSome(n) : n \in (0 - 2)..(MaxMsgLen + 1)}

NoResult == [pending |-> TRUE]

\* the relay is idle while a function is called on its own
NoRelay ==
  /\ environ = [DEFAULT_MODEL |-> Unset, OLLAMA_BASE_URL |-> Unset]
  /\ request = ChatRequest(<<>>, <<>>, TRUE)
  /\ RelayInit
  /\ reqs = <<>>

ValidateInit ==
  /\ NoRelay
  /\ \E m \in ValidationMessages, n \in ValidationMaxLengths :
       call = [fn |-> "validate_input", arg |-> InputValidationRequest(m, n),
               done |-> FALSE, result |-> NoResult]

\* the endpoint handler runs
ValidateInput ==
  /\ call.fn = "validate_input"
  /\ ~call.done
  /\ call' = [call EXCEPT !.done = TRUE, !.result = validate_input(call.arg)]
  /\ UNCHANGED <<relayVars, reqs>>

ValidateNext == ValidateInput

ValidateSpec == ValidateInit /\ [][ValidateNext]_vars

\* ---------------------------------------------------------------------------
\* fine_tune_user_message called on its own
\* ---------------------------------------------------------------------------
\* most words of an enumerated message
MaxWords == 3

Words == {<<"w","h","a","t">>, <<"i","s">>, <<"t","e","h">>, <<"b","u","g">>, <<"t","h","i","s">>}

Endings == {<<>>, <<"?">>, <<".">>, <<"!">>}

RECURSIVE JoinWords(_)
\* " ".join(ws)
JoinWords(ws) == IF Len(ws) = 1 THEN ws[1] ELSE ws[1] \o <<" ">> \o JoinWords(Tail(ws))

WordSeqs == UNION {[1..n -> Words] : n \in 1..MaxWords}

Contents ==
  {JoinWords(ws) \o e : ws \in WordSeqs, e \in Endings}
    \cup {<<>>, <<" ">>, <<" "," ","w","h","a","t"," ","i","s"," ","b","u","g"," ">>, <<"w","h","a","t"," ","i","s"," ","b","u","g","."," ">>, <<"w","h","a","t","\t","i","s"," "," ","b","u","g">>,
          <<"W","H","A","T"," ","i","s"," ","b","u","g">>, <<"i","s"," ","y","o","u"," "," ","a","r","e"," ","r","i","g","h","t">>, <<"h","e","l","p">>, <<"c","a","n","t"," ","s","t","o","p">>, <<"w","h","o"," ","h","e","l","p","s">>,
          <<"\n">>, <<"f","i","x"," ","b","u","g","\n">>, <<"w","h","a","t"," ","i","s","\n","b","u","g">>, <<"a","\n","b","\n","c">>, <<"a"," ","\n"," ","b">>,
          <<"y","o","u","\n","a","r","e"," ","r","i","g","h","t">>, <<"i","s"," ","b","u","g">>, <<"w","h","a","t","","n","o","w","\r","\n">>, <<"é","t","é"," ","i","s"," ","b","u","g">>,
          <<"ß","a"," ","i","s"," ","b","u","g">>}

Contexts ==
  {None, Some(<<>>), Some(<<Msg("system", <<"b","e"," ","b","r","i","e","f">>)>>),
   Some(<<Msg("user", <<"f","i","x"," ","t","h","i","s">>), Msg("assistant", <<"d","o","n","e">>)>>)}

NormalizeInit ==
  /\ NoRelay
  /\ \E c \in Contents, x \in Contexts :
       call = [fn |-> "fine_tune_user_message", content |-> c, context |-> x, pass |-> 0,
               before |-> <<>>, first |-> <<>>, alone |-> <<>>, second |-> <<>>]

\* the message is tuned with its context (first; before is tuned_message as it
\* enters step 7) and without any (alone)
TuneMessage ==
  /\ call.fn = "fine_tune_user_message"
  /\ call.pass = 0
  /\ call' = [call EXCEPT
       !.pass   = 1,
       !.before = IF Strip(call.content) = <<>> THEN <<>>
                  ELSE TunedBeforeEnding(call.content, call.context),
       !.first  = fine_tune_user_message(call.content, call.context),
       !.alone  = fine_tune_user_message(call.content, None)]
  /\ UNCHANGED <<relayVars, reqs>>

\* the tuned message is tuned again
TuneAgain ==
  /\ call.fn = "fine_tune_user_message"
  /\ call.pass = 1
  /\ call' = [call EXCEPT !.pass = 2,
                          !.second = fine_tune_user_message(call.first, call.context)]
  /\ UNCHANGED <<relayVars, reqs>>

NormalizeNext ==
  \/ TuneMessage
  \/ TuneAgain

NormalizeSpec == NormalizeInit /\ [][NormalizeNext]_vars

\* ---------------------------------------------------------------------------
\* Several requests in flight: each call of chat_stream (line 127) creates its
\* own generator stream_response, whose local variables are its only state
\* ---------------------------------------------------------------------------
\* number of requests handled concurrently
NumRequests == 2

\* what the backend does for one request: status 0 when no response arrives
\* (client.stream raises `fail`); a non-success status with the error body
\* (fail "none") or with a body whose read raises `fail`; status 200 with the
\* lines of the stream, after which it closes (fail "none") or the read raises
Response(status, error_body, lines, fail) ==
  [status |-> status, body |-> error_body, lines |-> lines, fail |-> fail]

\* the requests in flight and the response the backend gives to each
Served ==
  { <<ChatRequest(<<"s","t","r","i","n","g">>, <<Msg("user", <<"f","i","x"," ","b","u","g">>)>>, FALSE),
      Response(StatusOK, NoLine,
               <<Line("text", FALSE, NoErr), Line("obj", TRUE, ErrStr(<<"m","o","d","e","l"," ","x","y","z"," ","n","o","t"," ","f","o","u","n","d">>))>>,
               "none")>>,
    <<ChatRequest(<<" ","l","l","a","m","a","3","\n">>, <<Msg("assistant", <<"w","h","a","t"," ","i","s"," ","t","h","i","s">>)>>, TRUE),
      Response(StatusOK, NoLine,
               <<Line("text", FALSE, NoErr), Line("obj", TRUE, ErrStr(<<"m","o","d","e","l"," ","x","y","z"," ","n","o","t"," ","f","o","u","n","d">>))>>,
               "none")>>,
    <<ChatRequest(<<>>, <<>>, TRUE),
      Response(0, NoLine, <<>>, "connect")>>,
    <<ChatRequest(<<" ","l","l","a","m","a","3","\n">>, <<Msg("system", <<"f","i","x"," ","b","u","g">>)>>, TRUE),
      Response(404, Line("obj", TRUE, ErrStr(<<"b","o","o","m">>)), <<>>, "none")>>,
    <<ChatRequest(<<" ","l","l","a","m","a","3","\n">>, <<Msg("user", <<"c","a","n","t"," ","s","t","o","p">>)>>, TRUE),
      Response(StatusOK, NoLine, <<>>, "none")>>,
    <<ChatRequest(<<"S","T","R","I","N","G">>, <<>>, FALSE),
      Response(StatusOK, NoLine, <<>>, "timeout")>>,
    <<ChatRequest(<<>>, <<>>, TRUE),
      Response(500, NoLine, <<>>, "other")>> }

\* the generator of one request before its first step, with the response the
\* backend will give to it
Task(req, response) ==
  [request |-> req, response |-> response, pc |-> "Idle", model_name |-> <<>>,
   payload |-> NoPayload, next |-> 0, out |-> <<>>]

ConcInit ==
  /\ environ \in Environments
  /\ request = ChatRequest(<<>>, <<>>, TRUE)
  /\ RelayInit
  /\ call = NoCall
  /\ reqs \in [1..NumRequests -> {Task(s[1], s[2]) : s \in Served}]

\* model_name read from one variable that all requests share
ModelSeenBy_Shared(rs, i) == rs[1].model_name

\* line 132: model_name is a local variable of the generator of request i
ModelSeenBy(rs, i) == rs[i].model_name

\* line 130
Accept(i) ==
  /\ reqs[i].pc = "Idle"
  /\ reqs' = [reqs EXCEPT ![i].pc = "Validating"]
  /\ UNCHANGED <<relayVars, call>>

\* lines 131-139
Resolve(i) ==
  /\ reqs[i].pc = "Validating"
  /\ reqs' = [reqs EXCEPT ![i].model_name = ResolveModel(reqs[i].request.model),
                          ![i].pc = "Normalizing"]
  /\ UNCHANGED <<relayVars, call>>

\* lines 141-180
Post(i) ==
  /\ reqs[i].pc = "Normalizing"
  /\ LET prepared == PrepareMessages(reqs[i].request.messages)
         sent     == OllamaRequest(ModelSeenBy(reqs, i), prepared, reqs[i].request.stream)
     IN  reqs' = [reqs EXCEPT ![i].payload = sent, ![i].pc = "AwaitingBackendHeaders"]
  /\ UNCHANGED <<relayVars, call>>

\* lines 175-181 and 215-222: the response headers arrive or client.stream raises
Answer(i) ==
  /\ reqs[i].pc = "AwaitingBackendHeaders"
  /\ LET b == reqs[i].response
     IN  reqs' =
           CASE b.status = 0 ->
                  [reqs EXCEPT ![i].out = Append(@, ExceptionEvent(b.fail)),
                               ![i].pc = "YieldedError"]
             [] b.status = StatusOK ->
                  [reqs EXCEPT ![i].pc = "Streaming"]
             [] OTHER ->
                  [reqs EXCEPT ![i].pc = "ReadingErrorBody"]
  /\ UNCHANGED <<relayVars, call>>

\* lines 182-189 and 215-222: response.aread() returns the error body or raises
ReadErrorBody(i) ==
  /\ reqs[i].pc = "ReadingErrorBody"
  /\ LET b  == reqs[i].response
         ev == IF b.fail = "none" THEN ErrorDetail(b.status, b.body) ELSE ExceptionEvent(b.fail)
     IN  reqs' = [reqs EXCEPT ![i].out = Append(@, ev), ![i].pc = "YieldedError"]
  /\ UNCHANGED <<relayVars, call>>

\* lines 192-214
Deliver(i) ==
  /\ reqs[i].pc = "Streaming"
  /\ reqs[i].next < Len(reqs[i].response.lines)
  /\ LET n    == reqs[i].next + 1
         line == WithId(reqs[i].response.lines[n], n)
         r    == AfterLine(line, ModelSeenBy(reqs, i))
     IN  reqs' = [reqs EXCEPT ![i].next = n, ![i].out = @ \o r.emit, ![i].pc = r.pc]
  /\ UNCHANGED <<relayVars, call>>

\* line 192 after the last line: the stream ends or the read raises
EndOfStream(i) ==
  /\ reqs[i].pc = "Streaming"
  /\ reqs[i].next = Len(reqs[i].response.lines)
  /\ LET b == reqs[i].response
     IN  reqs' =
           IF b.fail = "none"
           THEN [reqs EXCEPT ![i].pc = PcAfterClose]
           ELSE [reqs EXCEPT ![i].out = Append(@, ExceptionEvent(b.fail)),
                             ![i].pc = "YieldedError"]
  /\ UNCHANGED <<relayVars, call>>

\* the caller of request i asks for its next event
Resume(i) ==
  /\ reqs[i].pc \in {"YieldedLine", "YieldedError"}
  /\ reqs' = [reqs EXCEPT ![i].pc = IF @ = "YieldedLine" THEN "Streaming" ELSE "Errored"]
  /\ UNCHANGED <<relayVars, call>>

ConcNext ==
  \E i \in 1..NumRequests :
    \/ Accept(i)
    \/ Resolve(i)
    \/ Post(i)
    \/ Answer(i)
    \/ ReadErrorBody(i)
    \/ Deliver(i)
    \/ EndOfStream(i)
    \/ Resume(i)

ConcSpec == ConcInit /\ [][ConcNext]_vars

\* ---------------------------------------------------------------------------
\* Properties
\* ---------------------------------------------------------------------------
\* an output line that carries an `error` field: an ErrorEvent of the relay, or a
\* forwarded backend line that parses as a JSON object with an `error` field
IsErrorBearing(e) == e.src = "relay" \/ (e.line.kind = "obj" /\ e.line.has)

ErrorPositions == {i \in 1..Len(out) : IsErrorBearing(out[i])}

IsBackendEvent(e) == e.src = "backend"

ForwardedLines == [i \in 1..Len(SelectSeq(out, IsBackendEvent)) |-> SelectSeq(out, IsBackendEvent)[i].line]

Ended == pc \in {"Done", "Errored", "Cancelled"}

\* C1: the stream holds at most one ErrorEvent, and an ErrorEvent is the last
\* event of the stream.
C1_AtMostOneErrorEventLast ==
  /\ Cardinality(ErrorPositions) <= 1
  /\ \A i \in ErrorPositions : i = Len(out)

C1_Witness ==
  /\ pc = "Errored"
  /\ Len(out) = 3
  /\ ErrorPositions = {3}
  /\ read[3].kind = "obj" /\ read[3].has

\* C2: the model of the payload sent to the backend is never empty and never the
\* placeholder `string`; an empty, whitespace-only or placeholder model (in any
\* letter case, with or without surrounding whitespace) is replaced by the default.
C2_ModelNeverPlaceholder ==
  payload.sent =>
    /\ payload.model # <<>>
    /\ Lower(payload.model) # <<"s","t","r","i","n","g">>
    /\ (Lower(Strip(request.model)) \in {<<>>, <<"s","t","r","i","n","g">>} => payload.model = DEFAULT_MODEL)

\* C3: message preparation keeps the length, the order and the roles of the
\* request's messages, and the content of every message whose role is not user.
C3_PreparationFrame ==
  payload.sent =>
    /\ payload.messages = fine_tuned_messages
    /\ Len(payload.messages) = Len(request.messages)
    /\ \A i \in 1..Len(request.messages) :
         /\ payload.messages[i].role = request.messages[i].role
         /\ (request.messages[i].role # "user" =>
               payload.messages[i].content = request.messages[i].content)

C3_Witness ==
  /\ payload.sent
  /\ \E i, j \in 1..Len(request.messages) :
       /\ request.messages[i].role = "system"
       /\ request.messages[i].content = <<"f","i","x"," ","b","u","g">>
       /\ payload.messages[i].content = <<"f","i","x"," ","b","u","g">>
       /\ request.messages[j].role = "user"
       /\ payload.messages[j].content # request.messages[j].content

\* C4: a backend line that parses as JSON with an `error` field, whatever the
\* value of the field, is replaced by exactly one ErrorEvent that ends the stream:
\* it is the last line read, the last event is the relay's ErrorEvent, and every
\* other event is a forwarded earlier line.
C4_ErrorLineEndsStream ==
  \A k \in 1..Len(read) :
    (read[k].kind = "obj" /\ read[k].has) =>
      /\ k = Len(read)
      /\ pc \in {"YieldedError", "Errored", "Cancelled"}
      /\ out # <<>>
      /\ out[Len(out)].src = "relay"
      /\ \A i \in 1..(Len(out) - 1) : out[i].src = "backend" /\ out[i].line.id < k

\* a line that the relay is to forward: not empty, and not a JSON object with an
\* `error` field
IsPassThrough(l) == l.kind # "empty" /\ ~(l.kind = "obj" /\ l.has)

\* C5: every non-empty line that is not JSON, or is JSON (object, array, string,
\* number, boolean, null) without an `error` field, is forwarded verbatim, once
\* and in order.
C5_PassThroughVerbatim == ForwardedLines = SelectSeq(read, IsPassThrough)

\* C6: on a non-success status the relay yields exactly one ErrorEvent and reads
\* no line; the event carries the body's `error` value when the body is a JSON
\* object with an `error` field, and `Ollama API error: {status}` otherwise.
C6_NonSuccessStatus ==
  (status_code # 0 /\ status_code # StatusOK) =>
    /\ read = <<>>
    /\ \A i \in 1..Len(out) : out[i].src = "relay"
    /\ Len(out) <= 1
    /\ (pc \in {"YieldedError", "Errored"} => Len(out) = 1)
    /\ (body # <<>> =>
          out = << IF body[1].kind = "obj" /\ body[1].has
                   THEN ErrorEvent("raw", body[1].err.s)
                   ELSE ErrorEvent("status", IF status_code = 404 THEN <<"4","0","4">> ELSE <<"5","0","0">>) >>)

C6_Witness ==
  /\ pc = "Errored"
  /\ status_code = 500
  /\ body = <<Line("obj", TRUE, ErrStr(<<"b","o","o","m">>))>>
  /\ out = <<ErrorEvent("raw", <<"b","o","o","m">>)>>

\* C7: a connection failure or a timeout while opening the connection gives a
\* stream of exactly one ErrorEvent, with a different message for each; a
\* timeout later on is the only ErrorEvent, after the forwarded lines only.
C7_TransportFailure ==
  fault.kind \in {"timeout", "connect"} =>
    /\ out # <<>>
    /\ out[Len(out)].src = "relay"
    /\ out[Len(out)].tmpl = (IF fault.kind = "timeout" THEN "request_timeout" ELSE "cannot_connect")
    /\ (fault.at = "open" => Len(out) = 1)
    /\ \A i \in 1..(Len(out) - 1) : out[i].src = "backend"

C7_Witness ==
  /\ pc = "Errored"
  /\ fault = [at |-> "open", kind |-> "connect"]
  /\ out = <<ErrorEvent("cannot_connect", OLLAMA_BASE_URL)>>

\* a line whose processing raises an exception (lines 194-211)
ProcessingFailed(l) == ProcessLine(l, model_name).act = "swallow"

\* C8: every failure, at any stage, ends the stream with exactly one ErrorEvent
\* as its last line; none is swallowed.
C8_NoFailureSwallowed ==
  (fault # NoFault \/ \E k \in 1..Len(read) : ProcessingFailed(read[k])) =>
    /\ pc \in {"YieldedError", "Errored", "Cancelled"}
    /\ ErrorPositions = {Len(out)}
    /\ out # <<>>

\* C9: once the stream has ended (backend closed, ErrorEvent, or cancelled at a
\* suspension point) the backend response and the client are closed.
C9_ConnectionReleased == Ended => (~clientOpen /\ ~respOpen)

C9_Witness ==
  /\ pc = "Cancelled"
  /\ status_code = StatusOK
  /\ Len(out) >= 1
  /\ posts = 1

\* C10: when the caller keeps reading and the backend eventually sends a line,
\* closes or fails, the generator finishes.
C10_Terminates == <>Ended

C10_Witness ==
  /\ pc = "Done"
  /\ Len(read) >= 3
  /\ Len(out) >= 2

\* ---------------------------------------------------------------------------
\* Properties of validate_input
\* ---------------------------------------------------------------------------
\* the limit the caller asked for: max_length when supplied, 10000 otherwise
SuppliedLimit(max_length) == IF max_length.present THEN max_length.val ELSE 10000

\* C12: validate_input reports a message invalid exactly when it is empty or
\* whitespace-only or longer than the supplied max_length (any integer, 0 and
\* negative included; 10000 only when none is supplied); the over-length result
\* carries current_length and max_length; the outcome is a structured result.
C12_InvalidExactlyWhen ==
  (call.fn = "validate_input" /\ call.done) =>
    LET m     == call.arg.message
        limit == SuppliedLimit(call.arg.max_length)
        blank == Strip(m) = <<>>
        r     == call.result
    IN  /\ "valid" \in DOMAIN r
        /\ r.valid = ~(blank \/ Len(m) > limit)
        /\ (~blank /\ Len(m) > limit) =>
              /\ {"current_length", "max_length"} \subseteq DOMAIN r
              /\ r.current_length = Len(m)
              /\ r.max_length = limit

\* ---------------------------------------------------------------------------
\* Properties of fine_tune_user_message
\* ---------------------------------------------------------------------------
Tuned == call.fn = "fine_tune_user_message" /\ call.pass >= 1

RECURSIVE TakeWord(_)
TakeWord(s) == IF s = <<>> \/ IsSpace(s[1]) THEN <<>> ELSE <<s[1]>> \o TakeWord(Tail(s))

\* the first whitespace-separated token of s, in lower case
FirstToken(s) == Lower(TakeWord(LStrip(s)))

\* fewer than 3 words, no `?`, no greeting token
ShortAndVague(s) ==
  /\ SplitCount(s) < 3
  /\ ~Contains(s, <<"?">>)
  /\ ~\E w \in greeting_words : Contains(Lower(s), w)

\* C13 as stated: every message of fewer than 3 words without `?` and without a
\* greeting token is returned with `Please explain: ` prepended.
C13_ShortGetsPrefix_Original ==
  (Tuned /\ ShortAndVague(call.content)) => StartsWith(call.first, <<"P","l","e","a","s","e"," ","e","x","p","l","a","i","n",":"," ">>)

\* C13: every message that is not empty or whitespace-only, has fewer than 3
\* words, no `?` and no greeting token is returned with `Please explain: `
\* prepended.
C13_ShortGetsPrefix ==
  (Tuned /\ Strip(call.content) # <<>> /\ ShortAndVague(call.content)) =>
    StartsWith(call.first, <<"P","l","e","a","s","e"," ","e","x","p","l","a","i","n",":"," ">>)

C13_Witness ==
  /\ Tuned
  /\ call.content = <<"t","e","h"," ","b","u","g">>
  /\ call.first = <<"P","l","e","a","s","e"," ","e","x","p","l","a","i","n",":"," ","t","h","e"," ","b","u","g",".">>

\* C14 as stated: every message whose first token is interrogative and that does
\* not end in `?` or `.` is returned ending in `?`, whatever its number of words.
C14_QuestionMark_Original ==
  (/\ Tuned
   /\ FirstToken(call.content) \in question_words
   /\ ~EndsWith(call.content, <<"?">>)
   /\ ~EndsWith(call.content, <<".">>)) => EndsWith(call.first, <<"?">>)

\* C14: every message whose first token is interrogative, whose trimmed text
\* does not end in `?` or `.`, and that is not short and vague (3 words or more,
\* or a `?` or a greeting token in it) is returned ending in `?`.
C14_QuestionMark ==
  (/\ Tuned
   /\ FirstToken(call.content) \in question_words
   /\ ~EndsWith(Strip(call.content), <<"?">>)
   /\ ~EndsWith(Strip(call.content), <<".">>)
   /\ ~ShortAndVague(call.content)) => EndsWith(call.first, <<"?">>)

C14_Witness ==
  /\ Tuned
  /\ call.content = <<"w","h","a","t"," ","i","s"," ","b","u","g","!">>
  /\ call.first = <<"W","h","a","t"," ","i","s"," ","b","u","g","?">>

\* C15: tuning is idempotent on a message whose first token is interrogative,
\* for any context.
C15_IdempotentOnQuestions ==
  (call.fn = "fine_tune_user_message" /\ call.pass = 2
     /\ FirstToken(call.content) \in question_words) => call.second = call.first

C15_Witness ==
  /\ call.fn = "fine_tune_user_message" /\ call.pass = 2
  /\ call.content = <<"w","h","a","t"," ","i","s"," ","t","e","h">>
  /\ call.first = <<"W","h","a","t"," ","i","s"," ","t","h","e","?">>
  /\ call.second = call.first
  /\ call.context.present

\* C18: a tuned message that is not empty, ends in an alphanumeric character
\* and whose first token is not interrogative gets a period appended; with an
\* interrogative first token or another last character nothing is appended.
C18_TerminalPeriod ==
  (Tuned /\ call.before # <<>>) =>
    LET t == call.before
    IN  IF IsAlnum(t[Len(t)]) /\ FirstToken(t) \notin question_words
        THEN call.first = t \o <<".">>
        ELSE call.first = t

\* C19: the result does not depend on the prior messages.
C19_ContextIndependent == Tuned => call.first = call.alone

C19_Witness ==
  /\ Tuned
  /\ call.context.present
  /\ Len(call.context.msgs) > 1
  /\ Contains(Lower(call.content), <<"t","h","i","s">>)
  /\ call.first = call.alone
  /\ call.first # call.content

\* ---------------------------------------------------------------------------
\* Properties of the relay, continued
\* ---------------------------------------------------------------------------
\* the ErrorEvent that the three ordered rules give for an error text, each
\* rule matching in any letter case
RuleEvent(error_text) ==
  LET e == Lower(error_text)
  IN  IF Contains(e, <<"t","i","m","e","d"," ","o","u","t"," ","w","a","i","t","i","n","g"," ","f","o","r"," ","l","l","a","m","a"," ","r","u","n","n","e","r">>) \/ Contains(e, <<"t","i","m","e","o","u","t">>)
      THEN ErrorEvent("model_loading_timeout", model_name)
      ELSE IF Contains(e, <<"m","o","d","e","l">>) /\ (Contains(e, <<"n","o","t"," ","f","o","u","n","d">>) \/ Contains(e, <<"d","o","e","s"," ","n","o","t"," ","e","x","i","s","t">>))
           THEN ErrorEvent("model_not_found", model_name)
           ELSE ErrorEvent("raw", error_text)

\* C16: the text of an in-stream error is classified by three ordered rules,
\* first match wins, the first rule in any letter case: timeout message, else
\* install message, else the raw text.
C16_ErrorClassification ==
  \A k \in 1..Len(read) :
    (read[k].kind = "obj" /\ read[k].has /\ read[k].err.t = "str") =>
      /\ out # <<>>
      /\ out[Len(out)] = RuleEvent(read[k].err.s)

\* the state of the request's state machine
Phase ==
  CASE pc = "ReadingErrorBody" -> "AwaitingBackendHeaders"
    [] pc = "YieldedLine"      -> "Streaming"
    [] pc = "YieldedError"     -> "Errored"
    [] OTHER                   -> pc

PhaseEdges ==
  { <<"Idle", "Validating">>, <<"Validating", "Normalizing">>,
    <<"Normalizing", "AwaitingBackendHeaders">>, <<"AwaitingBackendHeaders", "Streaming">>,
    <<"Streaming", "Done">> }

Emitted(src) == Len(out') = Len(out) + 1 /\ out'[Len(out')].src = src

\* C17: every step of a request (other than the client's disconnect) follows
\* Idle, Validating, Normalizing, AwaitingBackendHeaders, Streaming, Done, or
\* leads from a state that is not terminal to Errored; a line is forwarded in
\* Streaming only; nothing is emitted in Done or Errored and neither is left; an
\* ErrorEvent is emitted by a step into Errored.
C17_StateMachine ==
  [][ pc' # "Cancelled" =>
        /\ \/ Phase' = Phase
           \/ <<Phase, Phase'>> \in PhaseEdges
           \/ Phase \notin {"Done", "Errored"} /\ Phase' = "Errored"
        /\ Emitted("backend") => Phase = "Streaming"
        /\ Phase \in {"Done", "Errored"} => (out' = out /\ Phase' = Phase)
        /\ out' # out => (Emitted("backend") \/ Emitted("relay"))
        /\ Emitted("relay") => (Phase # "Errored" /\ Phase' = "Errored") ]_vars

C17_Witness ==
  /\ pc = "Errored"
  /\ Len(read) = 2
  /\ Len(out) = 2
  /\ fault = NoFault
  /\ status_code = StatusOK

\* C20: a request posts to the backend at most once, after model resolution
\* and message preparation have completed without failure, and never again
\* after a non-success status, an in-stream error or a failure.
C20_AtMostOnePost ==
  /\ posts <= 1
  /\ (posts = 1) = payload.sent
  /\ payload.sent =>
       /\ pc \notin {"Idle", "Validating", "Normalizing"}
       /\ payload.model = model_name
       /\ Len(payload.messages) = Len(request.messages)
       /\ fault.at # "prepare"
  /\ fault.at = "prepare" => posts = 0

C20_Witness ==
  /\ posts = 1
  /\ pc = "Errored"
  /\ fault = [at |-> "line", kind |-> "other"]
  /\ Len(out) >= 2

\* ---------------------------------------------------------------------------
\* Concurrent requests
\* ---------------------------------------------------------------------------
RECURSIVE AloneFrom(_, _, _, _)
\* the events of a stream from its k-th line on, relayed for model m
AloneFrom(lines, k, fail, m) ==
  IF k > Len(lines)
  THEN IF fail = "none" THEN <<>> ELSE <<ExceptionEvent(fail)>>
  ELSE LET r == AfterLine(WithId(lines[k], k), m)
       IN  IF r.pc = "YieldedError" THEN r.emit
           ELSE r.emit \o AloneFrom(lines, k + 1, fail, m)

\* the events a request emits when it is handled alone
Alone(req, response) ==
  CASE response.status = 0        -> <<ExceptionEvent(response.fail)>>
    [] response.status = StatusOK -> AloneFrom(response.lines, 1, response.fail,
                                               ResolveModel(req.model))
    [] response.fail = "none"     -> <<ErrorDetail(response.status, response.body)>>
    [] OTHER                      -> <<ExceptionEvent(response.fail)>>

IsPrefix(s, t) == Len(s) <= Len(t) /\ s = SubSeq(t, 1, Len(s))

\* the messages a request posts when it is handled alone
AlonePrepared == [r \in {s[1] : s \in Served} |-> PrepareMessages(r.messages)]

AsAlone(t) ==
  /\ \E alone \in {Alone(t.request, t.response)} :
       /\ IsPrefix(t.out, alone)
       /\ t.pc \in {"Done", "Errored"} => t.out = alone
  /\ t.payload.sent =>
       t.payload = OllamaRequest(ResolveModel(t.request.model), AlonePrepared[t.request],
                                 t.request.stream)

\* C11: under every interleaving of the steps of concurrent requests, each
\* request posts and emits what it posts and emits when handled alone with the
\* same backend response, and a step of one request changes no other request.
C11_RequestsIndependent ==
  /\ [](\A i \in DOMAIN reqs : AsAlone(reqs[i]))
  /\ [][\A i, j \in DOMAIN reqs : (reqs'[i] # reqs[i] /\ j # i) => reqs'[j] = reqs[j]]_vars

C11_Witness ==
  \E i, j \in DOMAIN reqs :
    /\ reqs[i].pc = "Errored"
    /\ Len(reqs[i].out) = 2
    /\ reqs[i].out[2].tmpl = "model_not_found"
    /\ reqs[j].pc = "Done"
    /\ reqs[j].model_name # <<>>
    /\ reqs[j].model_name # reqs[i].model_name
====
